---- MODULE Spec2Model ----
(***************************************************************************)
(* Model of the huntr token scanner: the GET scan cycle of                 *)
(* src/app/api/tokens/route.ts and the tokens table helpers of             *)
(* src/lib/lib/database.ts.                                                *)
(*                                                                         *)
(* Time is counted in whole minutes.  Addresses are sequences of           *)
(* one-character strings so that toLowerCase is computed, not assumed.     *)
(* Every await of the source is one step of a cycle: the code between two  *)
(* awaits runs without interruption and is part of the step that follows   *)
(* the first await's completion.                                           *)
(***************************************************************************)
EXTENDS Integers, Sequences, FiniteSets, TLC

(***************************************************************************)
(* Bounds of the model.                                                    *)
(***************************************************************************)
MaxHead == 3
MaxLogs == 2
MaxTicks == 2

(***************************************************************************)
(* Program constants.                                                      *)
(***************************************************************************)
LOOKBACK == 200
DEDUP_LIMIT == 100
TOP_LIMIT == 20
FRESH_MINUTES == 120
EXPIRY_MINUTES == 240
MAX_SYMBOL_LEN == 20
MAX_NAME_LEN == 100
SPIKE_SCORE == 25
MAX_SCORE == 30

\* The two reference assets, abbreviated to three characters each.  BASE_WETH
\* holds digits only; BASE_USDC holds letters of both cases.
BASE_WETH == <<"4", "2", "6">>
BASE_USDC == <<"8", "f", "C">>

\* Candidate token addresses the chain can report; TokALower is TokA in
\* another letter case.
TokA == <<"A", "b", "1">>
TokALower == <<"a", "b", "1">>
TokB == <<"B", "2", "2">>

Procs == {1, 2}

\* The clock stops after MaxTicks steps of at most LongTick minutes.
LongTick == FRESH_MINUTES + 1
MaxTime == MaxTicks * LongTick

\* Chain heads the RPC can report (Base mainnet is far past the lookback).
Heads == (LOOKBACK + 1)..(LOOKBACK + MaxHead)

NoAddress == << >>
NoToken == [address |-> NoAddress]
NoResponse ==
  [kind |-> "none", status |-> 0, tokens |-> << >>, error |-> "", details |-> ""]

(***************************************************************************)
(* Pure functions of route.ts.                                             *)
(***************************************************************************)
\* String.prototype.toLowerCase on one character.
LowerChar(c) ==
  CASE c = "A" -> "a"
    [] c = "B" -> "b"
    [] c = "C" -> "c"
    [] OTHER -> c

toLowerCase(s) == [i \in DOMAIN s |-> LowerChar(s[i])]

\* The classification with the hook rule ahead of the fee rules.
classifyTokenTypeHookFirst(hookData, fee) ==
  IF hookData # "" /\ hookData # "0x" THEN "HOOKED"
  ELSE IF fee = 3000 THEN "BASE_APP"
  ELSE IF fee = 10000 THEN "ZORA"
  ELSE "STANDARD"

\* Lines 201-207.  The empty string stands for every falsy hookData.
classifyTokenType(hookData, fee) ==
  IF fee = 3000 THEN "BASE_APP"
  ELSE IF fee = 10000 THEN "ZORA"
  ELSE IF hookData # "" /\ hookData # "0x" THEN "HOOKED"
  ELSE "STANDARD"

Min(a, b) == IF a < b THEN a ELSE b

\* The three sub-scores added up and capped as line 247 does.
ScoreOf(age, liq, mom) == Min(MAX_SCORE, age + liq + mom)

\* Lines 226-234 and 237-245 as they are, for the variants below.
LiquidityPoints(liquidityUSD) ==
  IF liquidityUSD > 20000 THEN 10
  ELSE IF liquidityUSD > 10000 THEN 8
  ELSE IF liquidityUSD > 5000 THEN 6
  ELSE IF liquidityUSD > 2000 THEN 3
  ELSE 0

MomentumPoints(priceChangePercent) ==
  IF priceChangePercent > 100 THEN 10
  ELSE IF priceChangePercent > 50 THEN 8
  ELSE IF priceChangePercent > 25 THEN 6
  ELSE IF priceChangePercent > 10 THEN 3
  ELSE 0

AgePoints(ageMinutes) ==
  IF ageMinutes < 5 THEN 10
  ELSE IF ageMinutes < 15 THEN 8
  ELSE IF ageMinutes < 30 THEN 5
  ELSE 0

\* The score with 8 points, not 10, for an age below 5 minutes.
calculateTokenScoreAgeEight(ageMinutes, liquidityUSD, priceChangePercent) ==
  ScoreOf(IF ageMinutes < 15 THEN 8 ELSE IF ageMinutes < 30 THEN 5 ELSE 0,
          LiquidityPoints(liquidityUSD), MomentumPoints(priceChangePercent))

\* The score with the points of two liquidity tiers exchanged.
calculateTokenScoreTiersSwapped(ageMinutes, liquidityUSD, priceChangePercent) ==
  ScoreOf(AgePoints(ageMinutes),
          IF liquidityUSD > 20000 THEN 10
          ELSE IF liquidityUSD > 10000 THEN 6
          ELSE IF liquidityUSD > 5000 THEN 8
          ELSE IF liquidityUSD > 2000 THEN 3
          ELSE 0,
          MomentumPoints(priceChangePercent))

\* The score with the top momentum tier including its boundary.
calculateTokenScoreInclusive(ageMinutes, liquidityUSD, priceChangePercent) ==
  ScoreOf(AgePoints(ageMinutes), LiquidityPoints(liquidityUSD),
          IF priceChangePercent >= 100 THEN 10
          ELSE MomentumPoints(priceChangePercent))

\* The score with 20 points for the top liquidity tier and no cap.
calculateTokenScoreUncapped(ageMinutes, liquidityUSD, priceChangePercent) ==
  AgePoints(ageMinutes)
    + (IF liquidityUSD > 20000 THEN 20 ELSE LiquidityPoints(liquidityUSD))
    + MomentumPoints(priceChangePercent)

calculateTokenScore(ageMinutes, liquidityUSD, priceChangePercent) ==
  LET age == IF ageMinutes < 5 THEN 10
             ELSE IF ageMinutes < 15 THEN 8
             ELSE IF ageMinutes < 30 THEN 5
             ELSE 0
      liq == IF liquidityUSD > 20000 THEN 10
             ELSE IF liquidityUSD > 10000 THEN 8
             ELSE IF liquidityUSD > 5000 THEN 6
             ELSE IF liquidityUSD > 2000 THEN 3
             ELSE 0
      mom == IF priceChangePercent > 100 THEN 10
             ELSE IF priceChangePercent > 50 THEN 8
             ELSE IF priceChangePercent > 25 THEN 6
             ELSE IF priceChangePercent > 10 THEN 3
             ELSE 0
  IN Min(MAX_SCORE, age + liq + mom)

\* The relevance test letting every event through.
IsRelevantAlways(log) == TRUE

\* Lines 113-116: the event has a reference asset as one of its legs.
isWETHPair(log) == log.currency0 = BASE_WETH \/ log.currency1 = BASE_WETH
isUSDCPair(log) == log.currency0 = BASE_USDC \/ log.currency1 = BASE_USDC
IsRelevant(log) == isWETHPair(log) \/ isUSDCPair(log)

\* Line 118: the leg taken as the candidate token.
CandidateOf(log) ==
  IF log.currency0 = BASE_WETH \/ log.currency0 = BASE_USDC
  THEN log.currency1
  ELSE log.currency0

\* Line 46 with the range starting at the cursor itself.
FromBlockNoStep(cursor, head) ==
  IF cursor > 0 THEN cursor ELSE head - LOOKBACK

\* Line 46 with the lookback taken whatever the cursor.
FromBlockLookbackOnly(cursor, head) == head - LOOKBACK

\* Line 46: the first block of the range to scan.
FromBlockOf(cursor, head) ==
  IF cursor > 0 THEN cursor + 1 ELSE head - LOOKBACK

(***************************************************************************)
(* The tokens table of database.ts.  A row keeps the columns the scan      *)
(* reads or writes, but for last_updated, which nothing reads;             *)
(* detected_at is in minutes.                                              *)
(***************************************************************************)
\* ON CONFLICT (address): the unique key compares the stored text as it is.
AddressConflict(a, b) == a = b

\* detected_at is not in saveToken's column list: the column default fills it.
DefaultDetectedAt(t) == t

\* The INSERT without its ON CONFLICT clause, on a table without the key.
saveTokenNoConflict(rows, tokenData, t) ==
  rows \cup
    { [address |-> tokenData.address,
       symbol |-> tokenData.symbol,
       name |-> tokenData.name,
       score |-> tokenData.score,
       liquidity |-> tokenData.liquidity,
       priceChange |-> tokenData.priceChange,
       ageMinutes |-> tokenData.ageMinutes,
       isSpikingNow |-> tokenData.isSpikingNow,
       tokenType |-> tokenData.tokenType,
       detectedAt |-> DefaultDetectedAt(t)] }

\* The upsert with detected_at among the columns its update sets.
saveTokenResetsDetectedAt(rows, tokenData, t) ==
  { r \in rows : ~AddressConflict(r.address, tokenData.address) } \cup
    { [address |-> tokenData.address,
       symbol |-> tokenData.symbol,
       name |-> tokenData.name,
       score |-> tokenData.score,
       liquidity |-> tokenData.liquidity,
       priceChange |-> tokenData.priceChange,
       ageMinutes |-> tokenData.ageMinutes,
       isSpikingNow |-> tokenData.isSpikingNow,
       tokenType |-> tokenData.tokenType,
       detectedAt |-> DefaultDetectedAt(t)] }

\* The upsert without is_spiking_now among the columns its update sets.
saveTokenKeepsSpiking(rows, tokenData, t) ==
  IF \E r \in rows : AddressConflict(r.address, tokenData.address)
  THEN { IF AddressConflict(r.address, tokenData.address)
         THEN [r EXCEPT !.score = tokenData.score,
                        !.liquidity = tokenData.liquidity,
                        !.priceChange = tokenData.priceChange,
                        !.ageMinutes = tokenData.ageMinutes]
         ELSE r : r \in rows }
  ELSE saveTokenNoConflict(rows, tokenData, t)

\* INSERT ... ON CONFLICT (address) DO UPDATE SET ...
saveToken(rows, tokenData, t) ==
  IF \E r \in rows : AddressConflict(r.address, tokenData.address)
  THEN { IF AddressConflict(r.address, tokenData.address)
         THEN [r EXCEPT !.score = tokenData.score,
                        !.liquidity = tokenData.liquidity,
                        !.priceChange = tokenData.priceChange,
                        !.ageMinutes = tokenData.ageMinutes,
                        !.isSpikingNow = tokenData.isSpikingNow]
         ELSE r : r \in rows }
  ELSE rows \cup
       { [address |-> tokenData.address,
          symbol |-> tokenData.symbol,
          name |-> tokenData.name,
          score |-> tokenData.score,
          liquidity |-> tokenData.liquidity,
          priceChange |-> tokenData.priceChange,
          ageMinutes |-> tokenData.ageMinutes,
          isSpikingNow |-> tokenData.isSpikingNow,
          tokenType |-> IF tokenData.tokenType = "" THEN "UNKNOWN"
                        ELSE tokenData.tokenType,
          detectedAt |-> DefaultDetectedAt(t)] }

\* WHERE detected_at > NOW() - INTERVAL '2 hours'
Visible(rows, t) == { r \in rows : r.detectedAt > t - FRESH_MINUTES }

\* ORDER BY score DESC alone.
RanksBeforeByScoreOnly(a, b) == a.score > b.score

\* ORDER BY score DESC, detected_at DESC
RanksBefore(a, b) ==
  \/ a.score > b.score
  \/ a.score = b.score /\ a.detectedAt > b.detectedAt

\* The result lists getTopTokens(limit) can return at time t: rows that tie in
\* the order come in either order.
getTopTokens(rows, t, limit) ==
  LET vis == Visible(rows, t)
      n == Min(limit, Cardinality(vis))
  IN { s \in [1..n -> vis] :
         /\ \A i, j \in 1..n : i < j => s[i] # s[j] /\ ~RanksBefore(s[j], s[i])
         /\ \A r \in vis :
              (\A i \in 1..n : s[i] # r) => \A i \in 1..n : ~RanksBefore(r, s[i]) }

\* The age step leaving every row as it is.
updateTokenAgesSkipped(rows, t) == rows

updateTokenAges(rows, t) ==
  { IF r.detectedAt > t - FRESH_MINUTES
    THEN [r EXCEPT !.ageMinutes = t - r.detectedAt]
    ELSE r : r \in rows }

\* The expire step deleting nothing.
cleanupOldTokensSkipped(rows, t) == rows

\* The expire step with the freshness horizon as its horizon.
cleanupOldTokensAtTwoHours(rows, t) ==
  { r \in rows : ~(r.detectedAt < t - FRESH_MINUTES) }

cleanupOldTokens(rows, t) == { r \in rows : ~(r.detectedAt < t - EXPIRY_MINUTES) }

(***************************************************************************)
(* Metadata resolution (getTokenMetadata).                                 *)
(***************************************************************************)
RECURSIVE Repeat(_, _)
Repeat(c, n) == IF n = 0 THEN "" ELSE c \o Repeat(c, n - 1)

LongSymbol == Repeat("S", MAX_SYMBOL_LEN + 1)
LongName == Repeat("n", MAX_NAME_LEN + 1)
FullSymbol == Repeat("S", MAX_SYMBOL_LEN)

Failed == [ok |-> FALSE, value |-> ""]
Read(v) == [ok |-> TRUE, value |-> v]

\* What the three contract reads can answer.
NameReads == {Read("Test"), Read(LongName), Failed}
SymbolReads == {Read("TST"), Read(LongSymbol), Failed}
DecimalsReads == {Read(18), [ok |-> FALSE, value |-> 0]}

\* promise.catch(() => default)
OrDefault(read, default) == IF read.ok THEN read.value ELSE default

null == [name |-> "", symbol |-> "", decimals |-> -1]

\* The resolution without the validation of lines 189-192.
getTokenMetadataUnchecked(contractOk, nameRead, symbolRead, decimalsRead) ==
  IF ~contractOk THEN null
  ELSE [name |-> OrDefault(nameRead, "Unknown Token"),
        symbol |-> OrDefault(symbolRead, "UNK"),
        decimals |-> OrDefault(decimalsRead, 18)]

\* The resolution failing as a whole when one read fails.
getTokenMetadataAllOrNothing(contractOk, nameRead, symbolRead, decimalsRead) ==
  IF ~contractOk \/ ~nameRead.ok \/ ~symbolRead.ok \/ ~decimalsRead.ok THEN null
  ELSE IF Len(symbolRead.value) > MAX_SYMBOL_LEN \/ Len(nameRead.value) > MAX_NAME_LEN
       THEN null
       ELSE [name |-> nameRead.value, symbol |-> symbolRead.value,
             decimals |-> decimalsRead.value]

getTokenMetadata(contractOk, nameRead, symbolRead, decimalsRead) ==
  IF ~contractOk THEN null
  ELSE LET name == OrDefault(nameRead, "Unknown Token")
           symbol == OrDefault(symbolRead, "UNK")
           decimals == OrDefault(decimalsRead, 18)
       IN IF Len(symbol) > MAX_SYMBOL_LEN \/ Len(name) > MAX_NAME_LEN
          THEN null
          ELSE [name |-> name, symbol |-> symbol, decimals |-> decimals]

\* The inputs one specification draws from: the events the chain delivers,
\* the heads it reports, the answers of the contract reads, the sampled market
\* values (samples of Math.random() * 20000 + 5000 and of Math.random() * 50)
\* and the steps of the clock.
World(heads, events, nameReads, symbolReads, decimalsReads, liquidity, priceChange, ticks) ==
  [heads |-> heads, events |-> events, nameReads |-> nameReads,
   symbolReads |-> symbolReads, decimalsReads |-> decimalsReads,
   liquidity |-> liquidity, priceChange |-> priceChange, ticks |-> ticks]

\* Lines 133-162: the record processPoolEvent assembles.
NewTokenOf(log, tokenData, liquidityUSD, priceChangePercent) ==
  LET score == calculateTokenScore(0, liquidityUSD, priceChangePercent)
  IN [address |-> CandidateOf(log),
      symbol |-> tokenData.symbol,
      name |-> tokenData.name,
      score |-> score,
      liquidity |-> liquidityUSD,
      priceChange |-> priceChangePercent,
      ageMinutes |-> 0,
      isSpikingNow |-> (score >= SPIKE_SCORE),
      tokenType |-> classifyTokenType(log.hookData, log.fee)]

(***************************************************************************)
(* Pool events the chain can deliver.                                      *)
(***************************************************************************)
Event(c0, c1, fee, hookData) ==
  [currency0 |-> c0, currency1 |-> c1, fee |-> fee, hookData |-> hookData]

\* Two pools of one candidate, and a pool of no reference asset.
ScanEvents ==
  { Event(BASE_WETH, TokA, 3000, "0x"),
    Event(TokA, BASE_USDC, 10000, "0xab"),
    Event(TokB, TokA, 500, "0x") }

\* A candidate, the same candidate in another letter case, a pool of the two
\* reference assets, and a pool of no reference asset.
StoreEvents ==
  { Event(BASE_WETH, TokA, 3000, "0x"),
    Event(TokALower, BASE_USDC, 10000, "0xab"),
    Event(BASE_WETH, BASE_USDC, 500, "0xab"),
    Event(TokB, TokA, 500, "0x") }

\* One pool of a new candidate.
RaceEvents == { Event(BASE_WETH, TokA, 3000, "0x") }

\* A pool is initialized once, so the events of one range are distinct.
Batches(E) ==
  UNION { { b \in [1..n -> E] : \A i, j \in 1..n : i # j => b[i] # b[j] } :
          n \in 0..MaxLogs }

(***************************************************************************)
(* State.                                                                  *)
(*   lastBlockProcessed  the module-level cursor of route.ts               *)
(*   tokens              the rows of the tokens table                      *)
(*   now                 the clock, in minutes                             *)
(*   cycle[p]            the frame of GET invocation p and of the          *)
(*                       processPoolEvent call it is in                    *)
(*   hist[p]             history of invocation p, kept for the properties  *)
(*   lastScan            the last finished invocation that chose a range   *)
(***************************************************************************)
VARIABLES lastBlockProcessed, tokens, now, cycle, hist, lastScan

vars == <<lastBlockProcessed, tokens, now, cycle, hist, lastScan>>

InitFrame ==
  [pc |-> "idle", currentBlock |-> 0, fromBlock |-> 0, logs |-> << >>,
   idx |-> 1, newTokensFound |-> 0, tokenAddress |-> NoAddress,
   newToken |-> NoToken, error |-> "none", response |-> NoResponse]

\* cursorAtStart: the cursor when the invocation began; ranged: line 46 ran;
\* cursorSet: the cursor was set (> 0) when line 46 ran;
\* emptyRange: the cursor was set and the head was not above it at line 46;
\* fetched: getContractEvents was called; advanced: line 68 ran;
\* results[i], inserted[i], failed[i]: what processPoolEvent returned for
\* logs[i], whether it added a row, whether a store call or the metadata
\* resolution threw while it ran;
\* saved: the addresses it passed to a saveToken that succeeded;
\* fallbackOk: the store read of the catch block succeeded;
\* expired: the rows cleanupOldTokens deleted;
\* resolved: for each event whose metadata was read, its index in logs, what
\* the three reads answered and what getTokenMetadata returned.
InitHist ==
  [cursorAtStart |-> 0, ranged |-> FALSE, cursorSet |-> FALSE, emptyRange |-> FALSE,
   fetched |-> FALSE, advanced |-> FALSE, results |-> << >>,
   inserted |-> << >>, failed |-> << >>, saved |-> {}, fallbackOk |-> FALSE,
   expired |-> {}, resolved |-> << >>]

NoScan == [from |-> 0, head |-> 0, cursorSet |-> FALSE, advanced |-> FALSE, any |-> FALSE]

Init ==
  /\ lastBlockProcessed = 0
  /\ tokens = {}
  /\ now = 0
  /\ cycle = [p \in Procs |-> InitFrame]
  /\ hist = [p \in Procs |-> InitHist]
  /\ lastScan = NoScan

\* The clock advances.  Its steps are far longer than a scan cycle, so they
\* fall between cycles.
Tick(W) ==
  /\ \A p \in Procs : cycle[p].pc = "idle"
  /\ \E d \in W.ticks : now + d <= MaxTime /\ now' = now + d
  /\ UNCHANGED <<lastBlockProcessed, tokens, cycle, hist, lastScan>>

\* Line 82: an exception of the try block reaches GET's catch.
Caught(f, cause) == [f EXCEPT !.pc = "catch", !.error = cause]

\* Lines 33-38: GET starts and awaits updateTokenAges().
UpdateTokenAges(p) ==
  /\ cycle[p].pc = "idle"
  /\ hist' = [hist EXCEPT ![p] = [InitHist EXCEPT !.cursorAtStart = lastBlockProcessed]]
  /\ \/ /\ tokens' = updateTokenAges(tokens, now)
        /\ cycle' = [cycle EXCEPT ![p] = [InitFrame EXCEPT !.pc = "cleanup"]]
     \/ /\ tokens' = tokens
        /\ cycle' = [cycle EXCEPT ![p] = Caught(InitFrame, "store")]
  /\ UNCHANGED <<lastBlockProcessed, now, lastScan>>

\* Line 39: await cleanupOldTokens().
CleanupOldTokens(p) ==
  /\ cycle[p].pc = "cleanup"
  /\ \/ /\ tokens' = cleanupOldTokens(tokens, now)
        /\ cycle' = [cycle EXCEPT ![p].pc = "blocknum"]
        /\ hist' = [hist EXCEPT ![p].expired = tokens \ tokens']
     \/ /\ tokens' = tokens
        /\ cycle' = [cycle EXCEPT ![p] = Caught(@, "store")]
        /\ hist' = hist
  /\ UNCHANGED <<lastBlockProcessed, now, lastScan>>

\* Lines 42-46: await client.getBlockNumber(), then the range is chosen.
GetBlockNumber(p, W) ==
  /\ cycle[p].pc = "blocknum"
  /\ \/ \E head \in W.heads :
          /\ cycle' = [cycle EXCEPT ![p].pc = "events",
                                    ![p].currentBlock = head,
                                    ![p].fromBlock = FromBlockOf(lastBlockProcessed, head)]
          /\ hist' = [hist EXCEPT ![p].ranged = TRUE,
                                  ![p].cursorSet = (lastBlockProcessed > 0),
                                  ![p].emptyRange = (lastBlockProcessed > 0
                                                     /\ head <= lastBlockProcessed)]
     \/ /\ cycle' = [cycle EXCEPT ![p] = Caught(@, "chain")]
        /\ hist' = hist
  /\ UNCHANGED <<lastBlockProcessed, tokens, now, lastScan>>

\* Lines 51-56: await client.getContractEvents({fromBlock, toBlock}).  A range
\* that holds no block holds no event.
GetContractEvents(p, W) ==
  /\ cycle[p].pc = "events"
  /\ hist' = [hist EXCEPT ![p].fetched = TRUE]
  /\ \/ \E batch \in Batches(W.events) :
          /\ cycle[p].fromBlock > cycle[p].currentBlock => batch = << >>
          /\ cycle' = [cycle EXCEPT ![p].pc = "loop", ![p].logs = batch, ![p].idx = 1]
     \/ cycle' = [cycle EXCEPT ![p] = Caught(@, "chain")]
  /\ UNCHANGED <<lastBlockProcessed, tokens, now, lastScan>>

\* processPoolEvent returns to the loop of lines 62-65.
Returned(f, wasNew) ==
  [f EXCEPT !.pc = "loop", !.idx = @ + 1,
            !.newTokensFound = IF wasNew THEN @ + 1 ELSE @,
            !.tokenAddress = NoAddress, !.newToken = NoToken]

\* processPoolEvent without its try/catch: the exception reaches GET.
EventFailureRethrown(f) == Caught(f, "store")

\* Lines 168-171: processPoolEvent catches what its body throws.
EventFailure(f) == Returned(f, FALSE)

Recorded(h, wasNew, added, threw) ==
  [h EXCEPT !.results = Append(@, wasNew),
            !.inserted = Append(@, added),
            !.failed = Append(@, threw)]

\* Lines 62-63 and 110-122: the loop takes the next event; processPoolEvent
\* runs to its first await, the dedup query.
ProcessPoolEvent(p) ==
  /\ cycle[p].pc = "loop"
  /\ cycle[p].idx <= Len(cycle[p].logs)
  /\ LET log == cycle[p].logs[cycle[p].idx]
     IN IF ~IsRelevant(log)
        THEN /\ cycle' = [cycle EXCEPT ![p] = Returned(@, FALSE)]
             /\ hist' = [hist EXCEPT ![p] = Recorded(@, FALSE, FALSE, FALSE)]
        ELSE /\ cycle' = [cycle EXCEPT ![p].pc = "dedup",
                                       ![p].tokenAddress = CandidateOf(log)]
             /\ hist' = hist
  /\ UNCHANGED <<lastBlockProcessed, tokens, now, lastScan>>

\* Line 123: the candidate is among the rows the dedup query returned.
AlreadyListed(existingTokens, tokenAddress) ==
  \E i \in DOMAIN existingTokens :
     toLowerCase(existingTokens[i].address) = toLowerCase(tokenAddress)

\* Lines 122-125: await getTopTokens(100), then the dedup check.
DedupQuery(p) ==
  /\ cycle[p].pc = "dedup"
  /\ \/ \E existingTokens \in getTopTokens(tokens, now, DEDUP_LIMIT) :
          IF AlreadyListed(existingTokens, cycle[p].tokenAddress)
          THEN /\ cycle' = [cycle EXCEPT ![p] = Returned(@, FALSE)]
               /\ hist' = [hist EXCEPT ![p] = Recorded(@, FALSE, FALSE, FALSE)]
          ELSE /\ cycle' = [cycle EXCEPT ![p].pc = "meta"]
               /\ hist' = hist
     \/ /\ cycle' = [cycle EXCEPT ![p] = EventFailure(@)]
        /\ hist' = [hist EXCEPT ![p] = Recorded(@, FALSE, FALSE, TRUE)]
  /\ UNCHANGED <<lastBlockProcessed, tokens, now, lastScan>>

\* One resolution of metadata, kept in the history.
Resolution(idx, nameRead, symbolRead, decimalsRead, tokenData) ==
  [idx |-> idx, nameRead |-> nameRead, symbolRead |-> symbolRead,
   decimalsRead |-> decimalsRead, tokenData |-> tokenData]

\* Lines 130-162: await getTokenMetadata(tokenAddress), then the record is
\* assembled from the metadata and the sampled market values.
ResolveMetadata(p, W) ==
  /\ cycle[p].pc = "meta"
  /\ \E contractOk \in BOOLEAN, nameRead \in W.nameReads,
        symbolRead \in W.symbolReads, decimalsRead \in W.decimalsReads,
        liquidityUSD \in W.liquidity, priceChangePercent \in W.priceChange :
       LET tokenData == getTokenMetadata(contractOk, nameRead, symbolRead, decimalsRead)
           log == cycle[p].logs[cycle[p].idx]
           reads == IF contractOk
                    THEN Append(hist[p].resolved,
                                Resolution(cycle[p].idx, nameRead, symbolRead,
                                           decimalsRead, tokenData))
                    ELSE hist[p].resolved
       IN IF tokenData = null
          THEN /\ cycle' = [cycle EXCEPT ![p] = Returned(@, FALSE)]
               /\ hist' = [hist EXCEPT ![p] = [Recorded(@, FALSE, FALSE, ~contractOk)
                                                 EXCEPT !.resolved = reads]]
          ELSE /\ cycle' = [cycle EXCEPT ![p].pc = "save",
                              ![p].newToken =
                                 NewTokenOf(log, tokenData, liquidityUSD, priceChangePercent)]
               /\ hist' = [hist EXCEPT ![p].resolved = reads]
  /\ UNCHANGED <<lastBlockProcessed, tokens, now, lastScan>>

\* Lines 164-167: await saveToken(newToken), then return true.
SaveToken(p) ==
  /\ cycle[p].pc = "save"
  /\ \/ /\ tokens' = saveToken(tokens, cycle[p].newToken, now)
        /\ cycle' = [cycle EXCEPT ![p] = Returned(@, TRUE)]
        /\ hist' = [hist EXCEPT
              ![p] = [Recorded(@, TRUE, Cardinality(tokens') > Cardinality(tokens), FALSE)
                        EXCEPT !.saved = @ \cup {cycle[p].newToken.address}]]
     \/ /\ tokens' = tokens
        /\ cycle' = [cycle EXCEPT ![p] = EventFailure(@)]
        /\ hist' = [hist EXCEPT ![p] = Recorded(@, FALSE, FALSE, TRUE)]
  /\ UNCHANGED <<lastBlockProcessed, now, lastScan>>

\* Line 68: the loop is over; the cursor takes the head of this cycle.
AdvanceCursor(p) ==
  /\ cycle[p].pc = "loop"
  /\ cycle[p].idx > Len(cycle[p].logs)
  /\ lastBlockProcessed' = cycle[p].currentBlock
  /\ cycle' = [cycle EXCEPT ![p].pc = "top"]
  /\ hist' = [hist EXCEPT ![p].advanced = TRUE]
  /\ UNCHANGED <<tokens, now, lastScan>>

Response(kind, status, rows, error, details) ==
  [kind |-> kind, status |-> status, tokens |-> rows, error |-> error,
   details |-> details]

\* The range and outcome an invocation leaves behind when it answers.
ScanOf(f, h) ==
  IF h.ranged
  THEN [from |-> f.fromBlock, head |-> f.currentBlock, cursorSet |-> h.cursorSet,
        advanced |-> h.advanced, any |-> TRUE]
  ELSE lastScan

\* Lines 71-81: await getTopTokens(20), then the success response.
ReturnTopTokens(p) ==
  /\ cycle[p].pc = "top"
  /\ \/ /\ \E rows \in getTopTokens(tokens, now, TOP_LIMIT) :
             cycle' = [cycle EXCEPT ![p].pc = "done",
                         ![p].response = Response("success", 200, rows, "", "")]
     \/ cycle' = [cycle EXCEPT ![p] = Caught(@, "store")]
  /\ UNCHANGED <<lastBlockProcessed, tokens, now, hist, lastScan>>

\* The catch block answering status 500 whatever the store read gave.
FallbackResponseAlwaysFailure(ok, rows, cause) ==
  Response("failure", 500, << >>, "Complete system failure", cause)

\* The catch block answering with an empty list instead of the rows it read.
FallbackResponseNoCache(ok, rows, cause) ==
  IF ok
  THEN Response("degraded", 200, << >>, "Scan failed, returning cached data", cause)
  ELSE Response("failure", 500, << >>, "Complete system failure", cause)

\* Lines 86-104: the catch block answers from the store, or reports that the
\* store failed too.
FallbackResponse(ok, rows, cause) ==
  IF ok
  THEN Response("degraded", 200, rows, "Scan failed, returning cached data", cause)
  ELSE Response("failure", 500, << >>, "Complete system failure", cause)

CatchFallback(p) ==
  /\ cycle[p].pc = "catch"
  /\ \/ /\ \E rows \in getTopTokens(tokens, now, TOP_LIMIT) :
             cycle' = [cycle EXCEPT ![p].pc = "done",
                         ![p].response = FallbackResponse(TRUE, rows, cycle[p].error)]
        /\ hist' = [hist EXCEPT ![p].fallbackOk = TRUE]
     \/ /\ cycle' = [cycle EXCEPT ![p].pc = "done",
                         ![p].response = FallbackResponse(FALSE, << >>, cycle[p].error)]
        /\ hist' = hist
  /\ UNCHANGED <<lastBlockProcessed, tokens, now, lastScan>>

\* GET returns its response; the invocation is over.
Respond(p) ==
  /\ cycle[p].pc = "done"
  /\ cycle' = [cycle EXCEPT ![p] = InitFrame]
  /\ hist' = [hist EXCEPT ![p] = InitHist]
  /\ lastScan' = ScanOf(cycle[p], hist[p])
  /\ UNCHANGED <<lastBlockProcessed, tokens, now>>

\* One step of GET invocation p in world W, up to its response.
Cycle(p, W) ==
  \/ UpdateTokenAges(p)
  \/ CleanupOldTokens(p)
  \/ GetBlockNumber(p, W)
  \/ GetContractEvents(p, W)
  \/ ProcessPoolEvent(p)
  \/ DedupQuery(p)
  \/ ResolveMetadata(p, W)
  \/ SaveToken(p)
  \/ AdvanceCursor(p)
  \/ ReturnTopTokens(p)
  \/ CatchFallback(p)

\* Scan cycles that do not overlap, one invocation at a time, with every head
\* and the clock standing still.
ScanWorld ==
  World(Heads, ScanEvents, {Read("Test")}, {Read("TST"), Read(LongSymbol)},
        {Read(18)}, {24000}, {40}, {})

Next == Cycle(1, ScanWorld) \/ Respond(1)

Spec == Init /\ [][Next]_vars

\* Scan cycles that do not overlap, with the clock running past the freshness
\* and the expiry horizon.
StoreWorld ==
  World({LOOKBACK + 1, LOOKBACK + 2}, StoreEvents, {Read("Test")},
        {Read("TST"), Read(LongSymbol)}, {Read(18)}, {24000}, {40}, {LongTick})

NextStore == Tick(StoreWorld) \/ Cycle(1, StoreWorld) \/ Respond(1)

SpecStore == Init /\ [][NextStore]_vars

\* Two scan cycles interleaved at their awaits, started with the cursor unset
\* or at a head an earlier cycle left.
InitConc ==
  /\ lastBlockProcessed \in {0} \cup Heads
  /\ tokens = {}
  /\ now = 0
  /\ cycle = [p \in Procs |-> InitFrame]
  /\ hist = [p \in Procs |-> InitHist]
  /\ lastScan = NoScan

RaceWorld ==
  World(Heads, RaceEvents, {Read("Test")}, {Read("TST")}, {Read(18)},
        {5000, 24000}, {0}, {})

NextConc == \E p \in Procs : Cycle(p, RaceWorld)

SpecConc == InitConc /\ [][NextConc]_vars

\* Scan cycles that do not overlap, of one pool that is reported again and
\* again, with the clock moving by half an hour, by an hour and a half and past
\* the freshness horizon.
AgingWorld ==
  World({LOOKBACK + 1, LOOKBACK + 2}, RaceEvents, {Read("Test")}, {Read("TST")},
        {Read(18)}, {24000}, {40}, {30, 90, LongTick})

NextAging == Tick(AgingWorld) \/ Cycle(1, AgingWorld) \/ Respond(1)

SpecAging == Init /\ [][NextAging]_vars

\* Scan cycles that do not overlap, with the market values given from outside:
\* a momentum of 60 is beyond what the sampling of line 139 yields.
MarketWorld ==
  World(Heads, RaceEvents, {Read("Test")}, {Read("TST")}, {Read(18)},
        {15000, 24000}, {40, 60}, {})

NextMarket == Cycle(1, MarketWorld) \/ Respond(1)

SpecMarket == Init /\ [][NextMarket]_vars

\* Inputs of calculateTokenScore: every bucket boundary and its neighbours.
ScoreAges == {0, 4, 5, 6, 14, 15, 16, 29, 30, 31, 90}
ScoreLiquidities == {0, 2000, 2001, 5000, 5001, 10000, 10001, 20000, 20001}
ScoreMomenta == {0, 10, 11, 25, 26, 50, 51, 100, 101}

\* One call of calculateTokenScore and what it returned.
ScoreCallOf(ageMinutes, liquidityUSD, priceChangePercent) ==
  [ageMinutes |-> ageMinutes, liquidityUSD |-> liquidityUSD,
   priceChangePercent |-> priceChangePercent,
   score |-> calculateTokenScore(ageMinutes, liquidityUSD, priceChangePercent)]

\* calculateTokenScore is called on its own, from a frame that holds no call,
\* with any metrics; the frame keeps the call.
CalculateTokenScore(p) ==
  /\ cycle[p].pc = "idle"
  /\ cycle[p].newToken = NoToken
  /\ \E ageMinutes \in ScoreAges, liquidityUSD \in ScoreLiquidities,
        priceChangePercent \in ScoreMomenta :
       cycle' = [cycle EXCEPT ![p].newToken =
                    ScoreCallOf(ageMinutes, liquidityUSD, priceChangePercent)]
  /\ UNCHANGED <<lastBlockProcessed, tokens, now, hist, lastScan>>

NextScore == CalculateTokenScore(1)

SpecScore == Init /\ [][NextScore]_vars

\* calculateTokenScore called on its own, and scan cycles that do not overlap
\* whose records take a low and a high score.
ScoredWorld ==
  World({LOOKBACK + 1}, RaceEvents, {Read("Test")}, {Read("TST")}, {Read(18)},
        {5000, 24000}, {0, 40}, {})

NextScored == CalculateTokenScore(1) \/ Cycle(1, ScoredWorld) \/ Respond(1)

SpecScored == Init /\ [][NextScored]_vars

\* Inputs of classifyTokenType: the two fees of the rules, their neighbours
\* and the ends of uint24; empty and non-empty hook payloads.
ClassifyFees == {0, 100, 500, 2999, 3000, 3001, 9999, 10000, 10001, 16777215}
ClassifyHookData ==
  {"", "0x", "0x0", "0x00", "0xab", "0xabcd", "0x3000", "0x10000", "00", "x"}

\* One call of classifyTokenType and what it returned.
ClassifyCallOf(hookData, fee) ==
  [hookData |-> hookData, fee |-> fee, tokenType |-> classifyTokenType(hookData, fee)]

\* classifyTokenType is called on its own, from a frame that holds no call;
\* the frame keeps the call.
ClassifyTokenType(p) ==
  /\ cycle[p].pc = "idle"
  /\ cycle[p].newToken = NoToken
  /\ \E hookData \in ClassifyHookData, fee \in ClassifyFees :
       cycle' = [cycle EXCEPT ![p].newToken = ClassifyCallOf(hookData, fee)]
  /\ UNCHANGED <<lastBlockProcessed, tokens, now, hist, lastScan>>

NextClassify == ClassifyTokenType(1)

SpecClassify == Init /\ [][NextClassify]_vars

\* Scan cycles that do not overlap, of one pool whose token answers the three
\* reads with short, full-length and over-long texts, or not at all.
MetadataWorld ==
  World({LOOKBACK + 1}, RaceEvents,
        {Read("Test"), Read(LongName), Failed},
        {Read("TST"), Read(FullSymbol), Read(LongSymbol), Failed},
        {Read(6), [ok |-> FALSE, value |-> 0]},
        {24000}, {40}, {})

NextMetadata == Cycle(1, MetadataWorld) \/ Respond(1)

SpecMetadata == Init /\ [][NextMetadata]_vars

\* The scan cycles of Spec with every await settling: a started invocation
\* keeps taking steps until it has answered.
SpecLive == Spec /\ WF_vars(Next)

\* Scan cycles that do not overlap, of one pool reported again and again with
\* a liquidity that puts its score below or above the spike threshold, and
\* the clock moving by half an hour and past the freshness horizon.
SpikeWorld ==
  World({LOOKBACK + 1, LOOKBACK + 2}, RaceEvents, {Read("Test")}, {Read("TST")},
        {Read(18)}, {15000, 24000}, {40}, {30, LongTick})

NextSpike == Tick(SpikeWorld) \/ Cycle(1, SpikeWorld) \/ Respond(1)

SpecSpike == Init /\ [][NextSpike]_vars

\* The exports of database.ts called on their own: saveToken with records of
\* three addresses and two scores, getTopTokens with a small limit, and the
\* clock moving by an hour.
TopLimits == {1, 2}
DatabaseWorld == World({}, {}, {}, {}, {}, {15000, 24000}, {40}, {60})

DatabaseRecords(W) ==
  { NewTokenOf(Event(BASE_WETH, a, 3000, "0x"), [name |-> "Test", symbol |-> "TST"],
               liquidityUSD, priceChangePercent) :
      a \in {TokA, TokALower, TokB}, liquidityUSD \in W.liquidity,
      priceChangePercent \in W.priceChange }

\* await saveToken(tokenData), called on its own.
SaveTokenCall(p, W) ==
  /\ cycle[p].pc = "idle"
  /\ \E tokenData \in DatabaseRecords(W) : tokens' = saveToken(tokens, tokenData, now)
  /\ UNCHANGED <<lastBlockProcessed, now, cycle, hist, lastScan>>

\* One call of getTopTokens and the rows it returned.
TopCallOf(limit, rows) == [limit |-> limit, rows |-> rows]

\* await getTopTokens(limit), called on its own; the frame keeps the call
\* until the caller has looked at it.
GetTopTokensCall(p) ==
  /\ cycle[p].pc = "idle"
  /\ \E limit \in TopLimits : \E rows \in getTopTokens(tokens, now, limit) :
       cycle' = [cycle EXCEPT ![p].pc = "returned",
                              ![p].newToken = TopCallOf(limit, rows)]
  /\ UNCHANGED <<lastBlockProcessed, tokens, now, hist, lastScan>>

ReturnToCaller(p) ==
  /\ cycle[p].pc = "returned"
  /\ cycle' = [cycle EXCEPT ![p] = InitFrame]
  /\ UNCHANGED <<lastBlockProcessed, tokens, now, hist, lastScan>>

NextDatabase ==
  \/ Tick(DatabaseWorld)
  \/ SaveTokenCall(1, DatabaseWorld)
  \/ GetTopTokensCall(1)
  \/ ReturnToCaller(1)

SpecDatabase == Init /\ [][NextDatabase]_vars

(***************************************************************************)
(* Properties.                                                             *)
(***************************************************************************)
AnyFailed(p) == \E i \in DOMAIN hist[p].failed : hist[p].failed[i]

RowsOf(a) == { r \in tokens : r.address = a }

\* C1: in every reachable store state no two rows have addresses that are
\* equal ignoring letter case.
C1_OneRecordPerNormalizedAddress ==
  \A r1, r2 \in tokens :
     toLowerCase(r1.address) = toLowerCase(r2.address) => r1 = r2

\* C2: across scan cycles that do not overlap, whatever head the chain
\* reports, the cursor lastBlockProcessed never decreases.
C2_CursorNeverDecreases ==
  [][lastBlockProcessed' >= lastBlockProcessed]_vars

\* C3: after a cycle that advanced the cursor to its head H, the next cycle
\* that chooses a range starts it at block H + 1.
C3_NextCycleStartsAfterHead ==
  \A p \in Procs :
     (hist[p].ranged /\ lastScan.any /\ lastScan.advanced)
        => cycle[p].fromBlock = lastScan.head + 1

\* A cycle chose its range after a cycle that scanned up to the lowest head.
C3_Witness ==
  \E p \in Procs :
     /\ hist[p].ranged /\ lastScan.any /\ lastScan.advanced
     /\ lastScan.head = LOOKBACK + 1
     /\ cycle[p].fromBlock = LOOKBACK + 2

\* C4: when getBlockNumber or getContractEvents throws, the cursor keeps the
\* value it had before the cycle, and the rows the catch block reads from the
\* store are answered as a degraded response: status 200 with an error field.
C4_ChainFailureDegrades ==
  \A p \in Procs :
     (cycle[p].pc = "done" /\ cycle[p].error = "chain")
        => /\ lastBlockProcessed = hist[p].cursorAtStart
           /\ ~hist[p].advanced
           /\ hist[p].fallbackOk
                => /\ cycle[p].response.kind = "degraded"
                   /\ cycle[p].response.status = 200
                   /\ cycle[p].response.error # ""
                   /\ cycle[p].response.tokens \in getTopTokens(tokens, now, TOP_LIMIT)

\* A cycle with a set cursor lost the chain and answered rows of the store.
C4_Witness ==
  \E p \in Procs :
     /\ cycle[p].pc = "done" /\ cycle[p].error = "chain"
     /\ hist[p].cursorAtStart > 0
     /\ hist[p].fallbackOk
     /\ Len(cycle[p].response.tokens) > 0

\* C5 as stated: after a cycle that failed while scanning [from, head], the
\* next cycle's range starts at the same from, the cursor set or unset.
C5_RetrySameRange ==
  \A p \in Procs :
     (hist[p].ranged /\ lastScan.any /\ ~lastScan.advanced)
        => cycle[p].fromBlock = lastScan.from

\* C5 amended: the next cycle's range starts at the failed cycle's from when
\* the cursor was set, or when the head is the same; then it covers the failed
\* range if the head did not go down.  With the cursor unset the range starts
\* LOOKBACK blocks below the next cycle's own head.
C5_RetrySameRangeWhenCursorSet ==
  \A p \in Procs :
     (hist[p].ranged /\ lastScan.any /\ ~lastScan.advanced)
        => /\ (lastScan.cursorSet \/ cycle[p].currentBlock = lastScan.head)
                => cycle[p].fromBlock = lastScan.from
           /\ (lastScan.cursorSet /\ cycle[p].currentBlock >= lastScan.head)
                => \A b \in lastScan.from..lastScan.head :
                      cycle[p].fromBlock <= b /\ b <= cycle[p].currentBlock
           /\ ~lastScan.cursorSet
                => cycle[p].fromBlock = cycle[p].currentBlock - LOOKBACK

\* A cycle retries, at a higher head, the range of a failed cycle whose cursor
\* was set.
C5_Witness ==
  \E p \in Procs :
     /\ hist[p].ranged /\ lastScan.any /\ ~lastScan.advanced
     /\ lastScan.cursorSet
     /\ lastScan.from <= lastScan.head
     /\ cycle[p].currentBlock > lastScan.head
     /\ cycle[p].fromBlock = lastScan.from

\* C6: when the cursor is set and the head is not above it, the cycle ends
\* without fetching events, processes none, reports no error and leaves the
\* cursor as it was.
C6_EmptyRangeEndsWithoutFetch ==
  \A p \in Procs :
     hist[p].emptyRange
        => /\ ~hist[p].fetched
           /\ hist[p].results = << >>
           /\ cycle[p].error = "none"
           /\ lastBlockProcessed = hist[p].cursorAtStart

\* C7: processPoolEvent returns true exactly when it added a row for an
\* address that had none.
C7_TrueIffInserted ==
  \A p \in Procs :
     \A i \in DOMAIN hist[p].results :
        hist[p].results[i] = hist[p].inserted[i]

\* A successful saveToken of invocation p has just completed.
Saved(p) ==
  /\ cycle[p].pc = "save"
  /\ Len(hist'[p].results) = Len(hist[p].results) + 1
  /\ hist'[p].results[Len(hist'[p].results)]

\* C8: two interleaved cycles that both pass the dedup check for one address
\* and both save it leave exactly one row for it; each save leaves that one
\* row with the saved values of the mutable columns.
C8_RaceKeepsOneRecord ==
  /\ [](\A p, q \in Procs :
          p # q => \A a \in hist[p].saved \cap hist[q].saved :
                      Cardinality(RowsOf(a)) = 1)
  /\ [][\A p \in Procs :
          Saved(p) =>
            LET t == cycle[p].newToken
                rows == { r \in tokens' : r.address = t.address }
            IN /\ Cardinality(rows) = 1
               /\ \A r \in rows :
                     /\ r.score = t.score
                     /\ r.liquidity = t.liquidity
                     /\ r.priceChange = t.priceChange
                     /\ r.ageMinutes = t.ageMinutes
                     /\ r.isSpikingNow = t.isSpikingNow]_vars

\* Both cycles returned true for the same address: one added the row, the
\* other passed the dedup check before that and overwrote it.
C8_Witness ==
  /\ hist[1].saved \cap hist[2].saved # {}
  /\ hist[1].inserted = <<TRUE>> /\ hist[2].inserted = <<FALSE>>
  /\ hist[1].results = <<TRUE>> /\ hist[2].results = <<TRUE>>
  /\ \A r \in tokens : r.detectedAt = now

\* C9: no row is ever written whose address is BASE_WETH or BASE_USDC.
C9_NoReferenceAssetRecorded ==
  \A r \in tokens : r.address \notin {BASE_WETH, BASE_USDC}

\* C10: a failure inside the processing of one event (the metadata
\* resolution or a store call throws) makes processPoolEvent return false and
\* does not abort the cycle: the events are
\* processed in order to the last one, the cursor advances, and the cycle
\* answers success when its own calls succeed.
C10_EventFailureIsLocal ==
  \A p \in Procs :
     /\ \A i \in DOMAIN hist[p].failed : hist[p].failed[i] => ~hist[p].results[i]
     /\ cycle[p].pc \in {"loop", "dedup", "meta", "save"}
           => Len(hist[p].results) = cycle[p].idx - 1
     /\ AnyFailed(p) =>
           /\ cycle[p].pc = "catch" => hist[p].advanced
           /\ cycle[p].pc = "done" =>
                 /\ Len(hist[p].results) = Len(cycle[p].logs)
                 /\ hist[p].advanced
                 /\ lastBlockProcessed = cycle[p].currentBlock
                 /\ cycle[p].error = "none"
                       => /\ cycle[p].response.kind = "success"
                          /\ cycle[p].response.status = 200

\* A cycle of two events whose first event met a failure and whose second
\* event was recorded answered success.
C10_Witness ==
  \E p \in Procs :
     /\ cycle[p].pc = "done"
     /\ hist[p].failed = <<TRUE, FALSE>>
     /\ hist[p].results = <<FALSE, TRUE>>
     /\ cycle[p].response.kind = "success"
     /\ lastBlockProcessed = cycle[p].currentBlock

\* C11: after any write to a row (insert, conflict update, or the bulk age
\* update) its stored score is the calculateTokenScore result for its stored
\* ageMinutes, liquidity and priceChange.
C11_ScoreMatchesStoredMetrics ==
  \A r \in tokens :
     r.score = calculateTokenScore(r.ageMinutes, r.liquidity, r.priceChange)

\* The same address names the same record in two successive store states.
SameRecord(r, r2) == r.address = r2.address

\* C12: the ageMinutes of a record is a non-negative integer and no store
\* operation lowers it.
C12_AgeNeverDecreases ==
  /\ [](\A r \in tokens : r.ageMinutes \in Nat)
  /\ [][\A r \in tokens : \A r2 \in tokens' :
          SameRecord(r, r2) => r2.ageMinutes >= r.ageMinutes]_vars

\* C13: no step changes the detectedAt of a record that stays in the store:
\* not the conflict update of saveToken, not updateTokenAges.
C13_DetectedAtImmutable ==
  [][\A r \in tokens : \A r2 \in tokens' :
       SameRecord(r, r2) => r2.detectedAt = r.detectedAt]_vars

\* A cycle took the conflict update of saveToken for a row detected before
\* now.
C13_Witness ==
  \E p \in Procs : \E i \in DOMAIN hist[p].results :
     /\ hist[p].results[i] /\ ~hist[p].inserted[i]
     /\ \E r \in tokens :
          r.address \in hist[p].saved /\ r.detectedAt < now

\* C14: right after cleanupOldTokens ran at time now, the store holds no row
\* detected more than 4 hours before now, and getTopTokens returns none.
C14_ExpiredRowsGone ==
  \A p \in Procs :
     cycle[p].pc = "blocknum"
        => /\ \A r \in tokens : ~(r.detectedAt < now - EXPIRY_MINUTES)
           /\ \A s \in getTopTokens(tokens, now, TOP_LIMIT) :
                 \A i \in DOMAIN s : ~(s[i].detectedAt < now - EXPIRY_MINUTES)

\* The expire step has just deleted a row detected more than 4 hours ago.
C14_Witness ==
  \E p \in Procs :
     /\ cycle[p].pc = "blocknum"
     /\ \E r \in hist[p].expired : r.detectedAt < now - EXPIRY_MINUTES
     /\ \A r \in hist[p].expired : r \notin tokens

\* The age of a row is between the freshness and the expiry horizon.
BetweenHorizons(r) ==
  r.detectedAt <= now - FRESH_MINUTES /\ r.detectedAt >= now - EXPIRY_MINUTES

\* C15: getTopTokens returns no row detected 2 hours ago or earlier, while
\* a row stays in the store until it is past the 4-hour horizon and the
\* expire step runs: no other step deletes a row.
C15_HiddenBeforeDeleted ==
  /\ [](\A s \in getTopTokens(tokens, now, DEDUP_LIMIT) :
          \A i \in DOMAIN s : s[i].detectedAt > now - FRESH_MINUTES)
  /\ [][\A r \in tokens :
          (\A r2 \in tokens' : ~SameRecord(r, r2))
             => /\ r.detectedAt < now - EXPIRY_MINUTES
                /\ \E p \in Procs : cycle[p].pc = "cleanup"]_vars

\* A cycle ran its expire step and answered an empty list while the store
\* holds a row detected exactly 2 hours ago.
C15_Witness ==
  \E p \in Procs :
     /\ cycle[p].pc = "done"
     /\ cycle[p].response.kind = "success"
     /\ cycle[p].response.tokens = << >>
     /\ \E r \in tokens : BetweenHorizons(r) /\ r.detectedAt = now - FRESH_MINUTES

\* C16: right after updateTokenAges ran at time now, every row detected
\* within the freshness horizon has ageMinutes = now - detectedAt.
C16_AgeIsMinutesSinceDetection ==
  \A p \in Procs :
     cycle[p].pc = "cleanup"
        => \A r \in tokens :
              r.detectedAt > now - FRESH_MINUTES
                 => r.ageMinutes = now - r.detectedAt

\* The age step has just run on a row detected 90 minutes ago.
C16_Witness ==
  \E p \in Procs :
     /\ cycle[p].pc = "cleanup"
     /\ \E r \in tokens : r.detectedAt = now - 90 /\ r.ageMinutes = 90

\* C17: with the cursor unset the requested range ends at the head and holds
\* LOOKBACK block heights.
C17_FirstRangeHoldsLookbackBlocks ==
  \A p \in Procs :
     (hist[p].ranged /\ ~hist[p].cursorSet)
        => cycle[p].currentBlock - cycle[p].fromBlock + 1 = LOOKBACK

\* The row was written from the event and the inputs of the example.
ExampleRow(r) ==
  /\ r.address = TokA
  /\ r.name = "Test" /\ r.symbol = "TST"
  /\ r.liquidity = 15000 /\ r.priceChange = 60 /\ r.ageMinutes = 0

IsScoreCall(p) == cycle[p].newToken # NoToken /\ cycle[p].pc = "idle"

\* C19 as stated: raising any one of the three inputs alone never lowers the
\* score.
C19_MonotonicInEveryInput ==
  \A p \in Procs :
     IsScoreCall(p) =>
       LET c == cycle[p].newToken
       IN /\ \A a \in ScoreAges :
               a >= c.ageMinutes
                  => calculateTokenScore(a, c.liquidityUSD, c.priceChangePercent)
                       >= c.score
          /\ \A l \in ScoreLiquidities :
               l >= c.liquidityUSD
                  => calculateTokenScore(c.ageMinutes, l, c.priceChangePercent)
                       >= c.score
          /\ \A m \in ScoreMomenta :
               m >= c.priceChangePercent
                  => calculateTokenScore(c.ageMinutes, c.liquidityUSD, m)
                       >= c.score

\* C19 amended: raising liquidityUSD alone or priceChangePercent alone never
\* lowers the score; raising ageMinutes alone never raises it.
C19_MonotonicInLiquidityAndMomentum ==
  \A p \in Procs :
     IsScoreCall(p) =>
       LET c == cycle[p].newToken
       IN /\ \A a \in ScoreAges :
               a >= c.ageMinutes
                  => calculateTokenScore(a, c.liquidityUSD, c.priceChangePercent)
                       <= c.score
          /\ \A l \in ScoreLiquidities :
               l >= c.liquidityUSD
                  => calculateTokenScore(c.ageMinutes, l, c.priceChangePercent)
                       >= c.score
          /\ \A m \in ScoreMomenta :
               m >= c.priceChangePercent
                  => calculateTokenScore(c.ageMinutes, c.liquidityUSD, m)
                       >= c.score

\* A call at the boundary of three buckets: 5 minutes, 10000 and 50.
C19_Witness ==
  \E p \in Procs :
     /\ IsScoreCall(p)
     /\ cycle[p].newToken.ageMinutes = 5
     /\ cycle[p].newToken.liquidityUSD = 10000
     /\ cycle[p].newToken.priceChangePercent = 50
     /\ cycle[p].newToken.score = 8 + 6 + 6

\* C20: the score is the sum of the age sub-score (<5: 10, <15: 8, <30: 5,
\* else 0), the liquidity sub-score (>20000: 10, >10000: 8, >5000: 6,
\* >2000: 3, else 0) and the momentum sub-score (>100: 10, >50: 8, >25: 6,
\* >10: 3, else 0), and of nothing else.
C20_ScoreIsSumOfSubScores ==
  \A p \in Procs :
     IsScoreCall(p) =>
       LET c == cycle[p].newToken
           a == c.ageMinutes
           l == c.liquidityUSD
           m == c.priceChangePercent
           ageSub == CASE a < 5 -> 10 [] a >= 5 /\ a < 15 -> 8
                       [] a >= 15 /\ a < 30 -> 5 [] OTHER -> 0
           liqSub == CASE l > 20000 -> 10 [] l <= 20000 /\ l > 10000 -> 8
                       [] l <= 10000 /\ l > 5000 -> 6
                       [] l <= 5000 /\ l > 2000 -> 3 [] OTHER -> 0
           momSub == CASE m > 100 -> 10 [] m <= 100 /\ m > 50 -> 8
                       [] m <= 50 /\ m > 25 -> 6
                       [] m <= 25 /\ m > 10 -> 3 [] OTHER -> 0
       IN c.score = ageSub + liqSub + momSub

\* A call with every input on a bucket boundary: 30 minutes, 20000 and 100.
C20_Witness ==
  \E p \in Procs :
     /\ IsScoreCall(p)
     /\ cycle[p].newToken.ageMinutes = 30
     /\ cycle[p].newToken.liquidityUSD = 20000
     /\ cycle[p].newToken.priceChangePercent = 100
     /\ cycle[p].newToken.score = 0 + 8 + 8

\* C21: calculateTokenScore returns an integer in [0, 30] for every input
\* combination, and every row of the store has a score in [0, 30].
C21_ScoreInRange ==
  /\ \A p \in Procs :
        IsScoreCall(p) => cycle[p].newToken.score \in 0..MAX_SCORE
  /\ \A r \in tokens : r.score \in 0..MAX_SCORE

\* The top of the range was returned by a call and is stored in a row.
C21_Witness ==
  /\ \E p \in Procs :
        /\ IsScoreCall(p)
        /\ cycle[p].newToken.ageMinutes = 4
        /\ cycle[p].newToken.liquidityUSD = 20001
        /\ cycle[p].newToken.priceChangePercent = 101
        /\ cycle[p].newToken.score = 30
  /\ \E r \in tokens : r.score = 26

\* The frame holds a call of classifyTokenType.
IsClassifyCall(p) ==
  cycle[p].pc = "idle" /\ cycle[p].newToken # NoToken

\* C22: classifyTokenType returns exactly one of the four tags for every
\* (fee, hookData): BASE_APP for fee 3000 and ZORA for fee 10000 whatever the
\* hook payload; for another fee HOOKED when the payload is neither absent nor
\* "0x", and STANDARD when it is.
C22_ClassifierTotalFeeFirst ==
  \A p \in Procs :
     IsClassifyCall(p) =>
       LET c == cycle[p].newToken
           emptyHook == c.hookData \in {"", "0x"}
       IN /\ c.tokenType \in {"BASE_APP", "ZORA", "HOOKED", "STANDARD"}
          /\ c.tokenType = "BASE_APP" <=> c.fee = 3000
          /\ c.tokenType = "ZORA" <=> c.fee = 10000
          /\ c.tokenType = "HOOKED" <=> (c.fee \notin {3000, 10000} /\ ~emptyHook)
          /\ c.tokenType = "STANDARD" <=> (c.fee \notin {3000, 10000} /\ emptyHook)

\* A call with fee 3000 and a non-empty hook payload returned BASE_APP.
C22_Witness ==
  \E p \in Procs :
     /\ IsClassifyCall(p)
     /\ cycle[p].newToken.fee = 3000
     /\ cycle[p].newToken.hookData = "0xab"
     /\ cycle[p].newToken.tokenType = "BASE_APP"

\* What a read gave, or the text given in its place when it failed.
ReadOr(read, default) == IF read.ok THEN read.value ELSE default

\* The resolution m found a symbol of more than 20 or a name of more than 100
\* characters.
OverLong(m) ==
  \/ Len(ReadOr(m.symbolRead, "UNK")) > 20
  \/ Len(ReadOr(m.nameRead, "Unknown Token")) > 100

\* C23: an event whose resolved symbol is longer than 20 characters or whose
\* name is longer than 100 is discarded: processPoolEvent returns false
\* without a store write, and no row with such a symbol or name is stored.
C23_OverLongMetadataDiscarded ==
  /\ \A r \in tokens : Len(r.symbol) <= 20 /\ Len(r.name) <= 100
  /\ \A p \in Procs : \A k \in DOMAIN hist[p].resolved :
        LET m == hist[p].resolved[k]
        IN OverLong(m)
             => /\ m.idx \in DOMAIN hist[p].results
                /\ ~hist[p].results[m.idx]
                /\ ~hist[p].inserted[m.idx]
                /\ ~hist[p].failed[m.idx]
                /\ hist[p].saved = {}

\* A cycle resolved a symbol of 21 characters, returned false for the event
\* and answered with the store still empty.
C23_Witness ==
  \E p \in Procs :
     /\ cycle[p].pc = "done"
     /\ Len(hist[p].resolved) = 1
     /\ Len(hist[p].resolved[1].symbolRead.value) = 21
     /\ hist[p].results = <<FALSE>>
     /\ tokens = {}

\* C27: each of the three reads falls back to its default on its own: when
\* any of them fail and the texts are within the lengths, the resolution
\* returns the values read with "Unknown Token", "UNK" and 18 in the place of
\* the failed ones, and the event is recorded with that name and symbol
\* unless the store fails.
C27_ReadsFallBackIndependently ==
  \A p \in Procs : \A k \in DOMAIN hist[p].resolved :
     LET m == hist[p].resolved[k]
         expected == [name |-> ReadOr(m.nameRead, "Unknown Token"),
                      symbol |-> ReadOr(m.symbolRead, "UNK"),
                      decimals |-> ReadOr(m.decimalsRead, 18)]
     IN ~OverLong(m)
          => /\ m.tokenData = expected
             /\ (m.idx \in DOMAIN hist[p].results /\ ~hist[p].failed[m.idx])
                  => /\ hist[p].results[m.idx]
                     /\ \E r \in tokens :
                          /\ r.address = CandidateOf(cycle[p].logs[m.idx])
                          /\ r.name = expected.name
                          /\ r.symbol = expected.symbol

\* The three reads failed and the event was recorded with the defaults.
C27_Witness ==
  \E p \in Procs :
     /\ Len(hist[p].resolved) = 1
     /\ ~hist[p].resolved[1].nameRead.ok
     /\ ~hist[p].resolved[1].symbolRead.ok
     /\ ~hist[p].resolved[1].decimalsRead.ok
     /\ hist[p].resolved[1].tokenData.decimals = 18
     /\ hist[p].results = <<TRUE>>
     /\ \E r \in tokens : r.name = "Unknown Token" /\ r.symbol = "UNK"

\* Neither leg of the event is BASE_WETH or BASE_USDC.
NoReferenceLeg(log) ==
  /\ log.currency0 \notin {BASE_WETH, BASE_USDC}
  /\ log.currency1 \notin {BASE_WETH, BASE_USDC}

\* C24: for an event with no reference asset as a leg processPoolEvent
\* returns false at once: it issues no store read, no metadata read and no
\* store write, and the store is unchanged.
C24_IrrelevantEventTouchesNothing ==
  /\ [](\A p \in Procs :
          /\ cycle[p].pc \in {"dedup", "meta", "save"}
                => ~NoReferenceLeg(cycle[p].logs[cycle[p].idx])
          /\ \A i \in DOMAIN hist[p].results :
                NoReferenceLeg(cycle[p].logs[i])
                   => /\ ~hist[p].results[i]
                      /\ ~hist[p].inserted[i]
                      /\ ~hist[p].failed[i]
          /\ \A k \in DOMAIN hist[p].resolved :
                ~NoReferenceLeg(cycle[p].logs[hist[p].resolved[k].idx]))
  /\ [][\A p \in Procs :
          (/\ cycle[p].pc = "loop"
           /\ cycle[p].idx <= Len(cycle[p].logs)
           /\ NoReferenceLeg(cycle[p].logs[cycle[p].idx]))
             => /\ tokens' = tokens
                /\ cycle'[p].pc = "loop"
                /\ cycle'[p].idx = cycle[p].idx + 1]_vars

\* A cycle went through a batch of an irrelevant event and a relevant one:
\* false for the first, a new row for the second.
C24_Witness ==
  \E p \in Procs :
     /\ cycle[p].pc = "done"
     /\ Len(cycle[p].logs) = 2
     /\ NoReferenceLeg(cycle[p].logs[1])
     /\ hist[p].results = <<FALSE, TRUE>>
     /\ Len(hist[p].resolved) = 1

\* C25: every invocation of GET answers; the status is an error status only
\* when the scan failed and the store read of the catch block failed too, and
\* in every other case the status is 200 and the response carries the list
\* read from the store.
C25_ErrorStatusOnlyOnTotalFailure ==
  /\ [](\A p \in Procs :
          cycle[p].pc = "done"
             => /\ cycle[p].response # NoResponse
                /\ cycle[p].response.status \in {200, 500}
                /\ cycle[p].response.status = 500
                      <=> (cycle[p].error # "none" /\ ~hist[p].fallbackOk)
                /\ cycle[p].response.status = 200
                      => cycle[p].response.tokens \in getTopTokens(tokens, now, TOP_LIMIT))
  /\ \A p \in Procs : (cycle[p].pc # "idle") ~> (cycle[p].pc = "done")

\* A cycle lost the chain, then the store in its catch block, and answered
\* 500 with both causes.
C25_Witness ==
  \E p \in Procs :
     /\ cycle[p].pc = "done"
     /\ cycle[p].error = "chain" /\ ~hist[p].fallbackOk
     /\ cycle[p].response.status = 500
     /\ cycle[p].response.kind = "failure"

\* C26: every row of the store has isSpikingNow = (score >= 25), after
\* inserts, conflict updates and age updates.
C26_SpikingIffScoreAtLeast25 ==
  \A r \in tokens : r.isSpikingNow <=> r.score >= 25

\* A conflict update has lowered a row detected earlier to a score of 24,
\* below the threshold.
C26_Witness ==
  \E p \in Procs :
     /\ hist[p].results = <<TRUE>> /\ hist[p].inserted = <<FALSE>>
     /\ \E r \in tokens :
          /\ r.detectedAt < now
          /\ r.score = 24 /\ ~r.isSpikingNow

\* a comes before b in the order of the claim: the higher score first and,
\* among equal scores, the later detectedAt first.
ComesFirst(a, b) ==
  a.score > b.score \/ (a.score = b.score /\ a.detectedAt > b.detectedAt)

\* C28: getTopTokens(limit) returns at most limit rows, each a different
\* visible row of the store, ordered by score descending and then detectedAt
\* descending; no visible row left out comes before a returned one.
C28_TopTokensOrderedAndLimited ==
  \A p \in Procs :
     cycle[p].pc = "returned" =>
       LET rows == cycle[p].newToken.rows
           visible == { r \in tokens : r.detectedAt > now - FRESH_MINUTES }
       IN /\ Len(rows) <= cycle[p].newToken.limit
          /\ \A i \in DOMAIN rows : rows[i] \in visible
          /\ \A i, j \in DOMAIN rows :
                i < j => rows[i] # rows[j] /\ ~ComesFirst(rows[j], rows[i])
          /\ \A r \in visible :
                (\A i \in DOMAIN rows : rows[i] # r)
                   => \A i \in DOMAIN rows : ~ComesFirst(r, rows[i])

\* getTopTokens(2) returned, of three visible rows, two of one score with the
\* later one first, and left out the row of the lower score.
C28_Witness ==
  \E p \in Procs :
     /\ cycle[p].pc = "returned"
     /\ cycle[p].newToken.limit = 2
     /\ Len(cycle[p].newToken.rows) = 2
     /\ cycle[p].newToken.rows[1].score = cycle[p].newToken.rows[2].score
     /\ cycle[p].newToken.rows[1].detectedAt > cycle[p].newToken.rows[2].detectedAt
     /\ \E r \in tokens :
          /\ r.detectedAt > now - FRESH_MINUTES
          /\ r.score < cycle[p].newToken.rows[2].score

Max(a, b) == IF a > b THEN a ELSE b

\* C29: after two overlapping cycles have both advanced the cursor and
\* answered, lastBlockProcessed is the larger of the two heads they read.
C29_OverlapKeepsLargerHead ==
  (\A p \in Procs : cycle[p].pc = "done" /\ hist[p].advanced)
     => lastBlockProcessed = Max(cycle[1].currentBlock, cycle[2].currentBlock)

\* The metadata of event i of invocation p was resolved and found valid.
ResolvedValid(p, i) ==
  \E k \in DOMAIN hist[p].resolved :
     hist[p].resolved[k].idx = i /\ hist[p].resolved[k].tokenData # null

\* C30: once a cycle has advanced the cursor, every event of its range that
\* pairs a candidate with a reference asset and has valid metadata has a row
\* for its candidate in the store, also when a store call failed while the
\* event was processed.
C30_NoRelevantEventLost ==
  \A p \in Procs :
     hist[p].advanced
        => \A i \in DOMAIN cycle[p].logs :
              (~NoReferenceLeg(cycle[p].logs[i]) /\ ResolvedValid(p, i))
                 => \E r \in tokens :
                       toLowerCase(r.address)
                          = toLowerCase(CandidateOf(cycle[p].logs[i]))

====
